---- MODULE Spec2Model ----
(* Model of the numerical engine of FourierSeriesAnalyzer (fourier_logic.py) and of    *)
(* the main window that drives it (fourier_ui.py, in the section of the window).       *)
(*                                                                                    *)
(* Numbers.  Every real number is an exact rational <<num, den>> (den > 0, lowest     *)
(* terms); rounding of floating point is not modelled.  Angles and times are measured *)
(* in units of pi/2, so 2*pi is the number 4 and cos/sin of every whole angle is one  *)
(* of -1, 0, 1.  The inputs are chosen so that every angle the code takes the cosine  *)
(* or sine of is whole: time samples are whole multiples of period/4.                 *)
(*                                                                                    *)
(* Arrays are sequences (1-based): Python's x[n] is x[n+1] here.  Where the identity   *)
(* of an array matters (the in-place additions and copies of the synthesis methods)   *)
(* the arrays of a call live in a store and variables hold references to them.        *)
(*                                                                                    *)
(* Square roots, arctan2 and log10 are not computed: a square root is kept as its     *)
(* radicand, and snr_db only as finite or -inf.                                       *)
EXTENDS Integers, Sequences, FiniteSets, TLC

\* period, omega0: the analyzer's fields.  op, args: the last operation called and its
\* arguments.  ret: what that call returned or raised.  func_calls: the sample vectors
\* the caller's function was evaluated on during that call.  pc: the caller's position,
\* "constructed" after analyzer = FourierSeriesAnalyzer(p), "called" after its call of
\* an engine operation on that analyzer.  window: the FourierSeriesMainWindow object of
\* the application (fourier_ui.py) with the analyzer it owns, "None" in a program that
\* uses the engine without the window.
VARIABLES period, omega0, op, args, ret, func_calls, pc, window

vars == <<period, omega0, op, args, ret, func_calls, pc, window>>

(* ---------------------------------------------------------------- bounds *)

\* Largest harmonic count N given to an operation.
MaxN == 3

\* Longest enable mask given to synthesize_selective (longer than MaxN on purpose).
MaxMask == 4

\* Length of the time vector given to the synthesis operations.
MaxT == 3

\* Longest signal given to compute_metrics.
MaxLen == 2

\* Largest harmonic count of a spectrum given to get_harmonic_analysis.
MaxSpectrum == 6

(* ------------------------------------------------------------- rationals *)

Abs(x) == IF x < 0 THEN -x ELSE x

RECURSIVE GCD(_, _)
GCD(a, b) == IF b = 0 THEN a ELSE GCD(b, a % b)

\* The rational n/d in lowest terms with a positive denominator (d # 0).
Norm(n, d) ==
    LET g == GCD(Abs(n), Abs(d))
        s == IF d < 0 THEN -1 ELSE 1
    IN  <<(s * n) \div g, (s * d) \div g>>

Rat(n) == <<n, 1>>

RAdd(x, y) == Norm(x[1] * y[2] + y[1] * x[2], x[2] * y[2])

RSub(x, y) == Norm(x[1] * y[2] - y[1] * x[2], x[2] * y[2])

RMul(x, y) == Norm(x[1] * y[1], x[2] * y[2])

\* x / y for y # 0.
RDiv(x, y) == Norm(x[1] * y[2], x[2] * y[1])

RLess(x, y) == x[1] * y[2] < y[1] * x[2]

RAbs(x) == <<Abs(x[1]), x[2]>>

IsZero(x) == x[1] = 0

(* ------------------------------------------------------------ numpy part *)

\* 2*np.pi in units of pi/2.
TwoPi == 4

\* np.cos / np.sin of a whole angle (in units of pi/2).
CosTable == <<1, 0, -1, 0>>

SinTable == <<0, 1, 0, -1>>

np_cos(angle) == Rat(CosTable[(angle[1] % 4) + 1])

np_sin(angle) == Rat(SinTable[(angle[1] % 4) + 1])

\* An array: the sequence of the values of f, a function on 1..n.
Array(f) == SubSeq(f, 1, Len(f))

\* Elementwise array arithmetic; a scalar is broadcast over the array.
VAdd(x, y) == Array([j \in 1..Len(x) |-> RAdd(x[j], y[j])])

VSub(x, y) == Array([j \in 1..Len(x) |-> RSub(x[j], y[j])])

VMul(x, y) == Array([j \in 1..Len(x) |-> RMul(x[j], y[j])])

VScale(c, x) == Array([j \in 1..Len(x) |-> RMul(c, x[j])])

VCos(x) == Array([j \in 1..Len(x) |-> np_cos(x[j])])

VSin(x) == Array([j \in 1..Len(x) |-> np_sin(x[j])])

\* np.ones_like(t), np.zeros(n)
ones_like(t) == Array([j \in 1..Len(t) |-> Rat(1)])

zeros(n) == Array([j \in 1..n |-> Rat(0)])

\* Results of a call: a returned value or a raised exception.
Return(v) == [kind |-> "return", value |-> v]

Raise(e) == [kind |-> "raise", exc |-> e]

\* linspace with endpoint=True: the last sample is stop, step = (stop - start)/(num - 1).
linspace_endpoint(start, stop, num) ==
    IF num < 0 THEN Raise("ValueError")
    ELSE LET step == IF num > 1 THEN RDiv(RSub(stop, start), Rat(num - 1)) ELSE Rat(0)
         IN  Return(Array([j \in 1..num |-> RAdd(RMul(Rat(j - 1), step), start)]))

\* np.linspace(start, stop, num, endpoint=False): num samples start + j*step,
\* step = (stop - start)/num; a negative num raises ValueError.
linspace(start, stop, num) ==
    IF num < 0 THEN Raise("ValueError")
    ELSE LET step == IF num > 0 THEN RDiv(RSub(stop, start), Rat(num)) ELSE Rat(0)
         IN  Return(Array([j \in 1..num |-> RAdd(RMul(Rat(j - 1), step), start)]))

\* np.trapz(y, x): sum over j of (x[j+1] - x[j]) * (y[j+1] + y[j]) / 2; 0 for fewer
\* than two samples.
RECURSIVE TrapzSum(_, _, _)
TrapzSum(y, x, j) ==
    IF j >= Len(x) THEN Rat(0)
    ELSE RAdd(RDiv(RMul(RSub(x[j + 1], x[j]), RAdd(y[j + 1], y[j])), Rat(2)),
              TrapzSum(y, x, j + 1))

trapz(y, x) == TrapzSum(y, x, 1)

(* ------------------------------------------------- FourierSeriesAnalyzer *)

\* __init__(period): period and omega0 = 2*pi/period of the new analyzer; dividing by
\* a zero period raises ZeroDivisionError and no analyzer is made.
init(p) ==
    IF IsZero(p) THEN Raise("ZeroDivisionError")
    ELSE Return([period |-> p, omega0 |-> RDiv(Rat(TwoPi), p)])

\* The quarter point of the period the time x falls on: 4*x/period (mod 4).
quarter_point(x, self_period) == RDiv(RMul(Rat(4), x), self_period)[1] % 4

\* f_samples = func(t): the caller's function func applied to the sample vector t.  A
\* function is given by its values at the four quarter points of its period
\* (func.values[q] is its value at every time on quarter point q) and by the quarter
\* points it raises at: the call raises when some sample of t falls on one of them.
call_func(func, t, self_period) ==
    IF \E j \in 1..Len(t) : quarter_point(t[j], self_period) \in func.raises_on
    THEN Raise("Exception")
    ELSE Return(Array([j \in 1..Len(t) |->
                          Rat(func.values[quarter_point(t[j], self_period)])]))

\* n * omega0 * t, elementwise.
harmonic_angle(n, self_omega0, t) == VScale(RMul(Rat(n), self_omega0), t)

\* The loop pass that integrates against harmonic n+1 while storing at position n.
coefficient_step_shifted(c, n, self_period, self_omega0, f_samples, t) ==
    LET cos_n == VCos(harmonic_angle(n + 1, self_omega0, t))
        sin_n == VSin(harmonic_angle(n + 1, self_omega0, t))
        scale == RDiv(Rat(2), self_period)
    IN  [an |-> [c.an EXCEPT ![n] = RMul(scale, trapz(VMul(f_samples, cos_n), t))],
         bn |-> [c.bn EXCEPT ![n] = RMul(scale, trapz(VMul(f_samples, sin_n), t))]]

\* One pass of the loop of compute_coefficients: harmonic n is stored at an[n-1], bn[n-1]
\* (position n of the sequences here).
coefficient_step(c, n, self_period, self_omega0, f_samples, t) ==
    LET cos_n == VCos(harmonic_angle(n, self_omega0, t))
        sin_n == VSin(harmonic_angle(n, self_omega0, t))
        scale == RDiv(Rat(2), self_period)
    IN  [an |-> [c.an EXCEPT ![n] = RMul(scale, trapz(VMul(f_samples, cos_n), t))],
         bn |-> [c.bn EXCEPT ![n] = RMul(scale, trapz(VMul(f_samples, sin_n), t))]]

RECURSIVE coefficient_loop(_, _, _, _, _, _, _)
coefficient_loop(c, n, n_harmonics, self_period, self_omega0, f_samples, t) ==
    IF n > n_harmonics THEN c
    ELSE coefficient_loop(coefficient_step(c, n, self_period, self_omega0, f_samples, t),
                          n + 1, n_harmonics, self_period, self_omega0, f_samples, t)

\* The sample times of compute_coefficients.
sample_times(self_period, n_points) == linspace(Rat(0), self_period, n_points)

\* The DC component of compute_coefficients.
dc_component(self_period, f_samples, t) ==
    RMul(RDiv(Rat(2), self_period), trapz(f_samples, t))

\* compute_coefficients with a handler around func(t) that goes on with zero samples.
compute_coefficients_fallback(self_period, self_omega0, func, n_harmonics, n_points) ==
    LET ts == sample_times(self_period, n_points)
    IN  IF ts.kind = "raise" THEN ts
        ELSE LET t == ts.value
                 fs == call_func(func, t, self_period)
                 f_samples == IF fs.kind = "raise" THEN zeros(Len(t)) ELSE fs.value
                 a0 == dc_component(self_period, f_samples, t)
             IN  IF n_harmonics < 0 THEN Raise("ValueError")
                 ELSE LET c == coefficient_loop(
                                   [an |-> zeros(n_harmonics), bn |-> zeros(n_harmonics)],
                                   1, n_harmonics, self_period, self_omega0, f_samples, t)
                      IN  Return([a0 |-> a0, an |-> c.an, bn |-> c.bn])

\* compute_coefficients filling an and bn from the far end: harmonic n is stored at
\* position n_harmonics - n.
compute_coefficients_from_end(self_period, self_omega0, func, n_harmonics, n_points) ==
    LET ts == sample_times(self_period, n_points)
    IN  IF ts.kind = "raise" THEN ts
        ELSE LET t == ts.value
                 fs == call_func(func, t, self_period)
             IN  IF fs.kind = "raise" THEN fs
                 ELSE LET f_samples == fs.value
                          a0 == dc_component(self_period, f_samples, t)
                      IN  IF n_harmonics < 0 THEN Raise("ValueError")
                          ELSE LET c == coefficient_loop(
                                            [an |-> zeros(n_harmonics),
                                             bn |-> zeros(n_harmonics)],
                                            1, n_harmonics, self_period, self_omega0,
                                            f_samples, t)
                                   N == n_harmonics
                               IN  Return([a0 |-> a0,
                                           an |-> Array([k \in 1..N |-> c.an[N + 1 - k]]),
                                           bn |-> Array([k \in 1..N |-> c.bn[N + 1 - k]])])

\* compute_coefficients: an exception of linspace or of func(t) leaves the method at
\* that line; there is no handler in it.
compute_coefficients(self_period, self_omega0, func, n_harmonics, n_points) ==
    LET ts == sample_times(self_period, n_points)
    IN  IF ts.kind = "raise" THEN ts
        ELSE LET t == ts.value
                 fs == call_func(func, t, self_period)
             IN  IF fs.kind = "raise" THEN fs
                 ELSE LET f_samples == fs.value
                          a0 == dc_component(self_period, f_samples, t)
                      IN  IF n_harmonics < 0 THEN Raise("ValueError")
                          ELSE LET c == coefficient_loop(
                                            [an |-> zeros(n_harmonics),
                                             bn |-> zeros(n_harmonics)],
                                            1, n_harmonics, self_period, self_omega0,
                                            f_samples, t)
                               IN  Return([a0 |-> a0, an |-> c.an, bn |-> c.bn])

\* The argument vectors compute_coefficients calls func with, in order.
calls_of_func(self_period, n_points) ==
    LET ts == sample_times(self_period, n_points)
    IN  IF ts.kind = "raise" THEN <<>> ELSE <<ts.value>>

\* signal += an[n]*cos((n+1)*omega0*t); signal += bn[n]*sin((n+1)*omega0*t), n 0-based.
add_harmonic(signal, n, an, bn, self_omega0, t) ==
    LET s1 == VAdd(signal, VScale(an[n + 1], VCos(harmonic_angle(n + 1, self_omega0, t))))
    IN  VAdd(s1, VScale(bn[n + 1], VSin(harmonic_angle(n + 1, self_omega0, t))))

\* The DC signal without the halving of a0.
dc_signal_full_a0(a0, t) == VScale(a0, ones_like(t))

\* a0/2 * np.ones_like(t)
dc_signal(a0, t) == VScale(RDiv(a0, Rat(2)), ones_like(t))

\* The array objects of a synthesis call.  A store holds the contents of every array
\* object there is during the call: the argument arrays t, an, bn and the list
\* enabled_harmonics, the array made for signal, and the arrays made by signal.copy() in
\* the order of their making.  An array object is referred to by <<"t", 0>>, <<"an", 0>>,
\* <<"bn", 0>>, <<"signal", 0>> or <<"copy", i>>; a Python variable holds such a
\* reference.
new_store(t, an, bn, enabled_harmonics) ==
    [t |-> t, an |-> an, bn |-> bn, enabled_harmonics |-> enabled_harmonics,
     signal |-> <<>>, copies |-> <<>>]

\* The contents of the array object ref refers to.
read(store, ref) == IF ref[1] = "copy" THEN store.copies[ref[2]] ELSE store[ref[1]]

\* The store after the contents of the array object ref refers to are overwritten by x.
write(store, ref, x) ==
    IF ref[1] = "copy" THEN [store EXCEPT !.copies[ref[2]] = x]
    ELSE [store EXCEPT ![ref[1]] = x]

\* signal = t followed by signal[:] = a0/2: no array is made, signal refers to the
\* caller's t.
new_signal_in_t(store, a0) ==
    [store |-> write(store, <<"t", 0>>, dc_signal(a0, store.t)), ref |-> <<"t", 0>>]

\* signal = a0/2 * np.ones_like(t): the product is a new array, signal refers to it.
new_signal(store, a0) ==
    [store |-> write(store, <<"signal", 0>>, dc_signal(a0, store.t)),
     ref |-> <<"signal", 0>>]

\* signal where signal.copy() stands: no array is made, the result refers to the array
\* signal refers to.
copy_alias(store, signal) == [store |-> store, ref |-> signal]

\* signal.copy(): a new array with the contents signal has now.
copy(store, signal) ==
    [store |-> [store EXCEPT !.copies = Append(@, read(store, signal))],
     ref |-> <<"copy", Len(store.copies) + 1>>]

\* The two += statements of a loop pass: the array signal refers to is overwritten in
\* place; an, bn and t are read from their arrays.
add_harmonic_in_place(store, signal, n, self_omega0) ==
    write(store, signal,
          add_harmonic(read(store, signal), n, store.an, store.bn, self_omega0, store.t))

\* The loop of synthesize_progressive from pass n on; reconstructions is the list of
\* references appended so far.
RECURSIVE progressive_loop(_, _, _, _, _)
progressive_loop(store, signal, reconstructions, n, self_omega0) ==
    IF n >= Len(store.an) THEN [store |-> store, reconstructions |-> reconstructions]
    ELSE LET c == copy(add_harmonic_in_place(store, signal, n, self_omega0), signal)
         IN  progressive_loop(c.store, signal, Append(reconstructions, c.ref), n + 1,
                              self_omega0)

\* synthesize_progressive on array objects: the store when it returns and the list of
\* references it returns.
synthesize_progressive_objects(self_omega0, a0, an, bn, t) ==
    LET s == new_signal(new_store(t, an, bn, <<>>), a0)
        c == copy(s.store, s.ref)
    IN  progressive_loop(c.store, s.ref, <<c.ref>>, 0, self_omega0)

\* synthesize_progressive appending the running signal itself instead of a copy: every
\* element of the list is the one array, which ends as the full reconstruction.
synthesize_progressive_no_copy(self_omega0, a0, an, bn, t) ==
    LET r == synthesize_progressive_objects(self_omega0, a0, an, bn, t)
    IN  Return(Array([i \in 1..Len(r.reconstructions) |-> r.store.signal]))

\* synthesize_progressive: the list it returns, as the contents its elements have when
\* it returns.
synthesize_progressive(self_omega0, a0, an, bn, t) ==
    LET r == synthesize_progressive_objects(self_omega0, a0, an, bn, t)
    IN  Return(Array([i \in 1..Len(r.reconstructions) |->
                         read(r.store, r.reconstructions[i])]))

\* The test with the bound one too low: the last harmonic is never added.
harmonic_selected_off_by_one(n, enabled, an) == enabled /\ n < Len(an) - 1

\* The test without the mask.
harmonic_selected_ignores_mask(n, enabled, an) == n < Len(an)

\* The test of the loop of synthesize_selective, n 0-based.
harmonic_selected(n, enabled, an) == enabled /\ n < Len(an)

\* The loop of synthesize_selective from pass n on.
RECURSIVE selective_loop(_, _, _, _)
selective_loop(store, signal, n, self_omega0) ==
    IF n >= Len(store.enabled_harmonics) THEN store
    ELSE selective_loop(
             IF harmonic_selected(n, store.enabled_harmonics[n + 1], store.an)
             THEN add_harmonic_in_place(store, signal, n, self_omega0)
             ELSE store,
             signal, n + 1, self_omega0)

\* synthesize_selective on array objects: the store when it returns and the reference
\* it returns.
synthesize_selective_objects(self_omega0, a0, an, bn, t, enabled_harmonics) ==
    LET s == new_signal(new_store(t, an, bn, enabled_harmonics), a0)
    IN  [store |-> selective_loop(s.store, s.ref, 0, self_omega0), signal |-> s.ref]

\* synthesize_selective starting from zeros instead of the DC term.
synthesize_selective_zero_start(self_omega0, a0, an, bn, t, enabled_harmonics) ==
    LET s == new_signal(new_store(t, an, bn, enabled_harmonics), Rat(0))
    IN  Return(read(selective_loop(s.store, s.ref, 0, self_omega0), s.ref))

\* synthesize_selective: the array it returns, as its contents when it returns.
synthesize_selective(self_omega0, a0, an, bn, t, enabled_harmonics) ==
    LET r == synthesize_selective_objects(self_omega0, a0, an, bn, t, enabled_harmonics)
    IN  Return(read(r.store, r.signal))

\* The length two arrays of lengths m and n broadcast to, -1 when they do not broadcast.
broadcast_len(m, n) ==
    IF m = n THEN m ELSE IF m = 1 THEN n ELSE IF n = 1 THEN m ELSE -1

\* x broadcast to length L.
broadcast(x, L) == Array([j \in 1..L |-> IF Len(x) = 1 THEN x[1] ELSE x[j]])

RECURSIVE SumFrom(_, _)
SumFrom(x, j) == IF j > Len(x) THEN Rat(0) ELSE RAdd(x[j], SumFrom(x, j + 1))

\* np.sum, np.mean (of a non-empty array)
np_sum(x) == SumFrom(x, 1)

np_mean(x) == RDiv(np_sum(x), Rat(Len(x)))

RECURSIVE MaxFrom(_, _)
MaxFrom(x, j) ==
    IF j = Len(x) THEN x[j]
    ELSE LET m == MaxFrom(x, j + 1) IN IF RLess(x[j], m) THEN m ELSE x[j]

\* np.max (of a non-empty array)
np_max(x) == MaxFrom(x, 1)

\* np.std(x)**2 (of a non-empty array)
variance(x) ==
    LET mu == np_mean(x)
    IN  np_mean(Array([j \in 1..Len(x) |-> RMul(RSub(x[j], mu), RSub(x[j], mu))]))

\* compute_metrics.  Square roots are kept as [sqrt_of |-> q].  original - reconstructed
\* broadcasts (ValueError when the shapes do not); on empty arrays np.mean gives nan with
\* a warning and np.max raises ValueError.
\* snr_db is 20*log10(std/(rms_error + 1e-12)): the quotient is finite and >= 0, and 0
\* exactly when std(original) = 0, where log10 gives -inf (with a warning); otherwise the
\* logarithm is finite.
\* relative_error is rms_error/(std + 1e-12), kept as the radicands of rms_error
\* (sqrt_of_num) and of std (sqrt_of_den).
compute_metrics(original, reconstructed) ==
    LET L == broadcast_len(Len(original), Len(reconstructed))
    IN  IF L < 0 THEN Raise("ValueError")
        ELSE IF L = 0 THEN Raise("ValueError")
        ELSE LET diff == VSub(broadcast(original, L), broadcast(reconstructed, L))
                 mse == np_mean(VMul(diff, diff))
                 var == variance(original)
             IN  Return([rms_error |-> [sqrt_of |-> mse],
                         max_error |-> np_max(Array([j \in 1..L |-> RAbs(diff[j])])),
                         snr_db |-> IF IsZero(var) THEN "-inf" ELSE "finite",
                         relative_error |-> [sqrt_of_num |-> mse, sqrt_of_den |-> var]])

\* 1e-12, the constant get_harmonic_analysis adds to its denominators.  The coefficients
\* given to get_harmonic_analysis are measured in units of 1e-6, so powers are in units
\* of 1e-12 and 1e-12 is the number 1.
Epsilon == Rat(1)

\* The number of dominant harmonics: the 5 of [-5:].
DominantCount == 5

\* magnitude = np.sqrt(an**2 + bn**2), square roots kept as [sqrt_of |-> q]; an**2 + bn**2
\* broadcasts (ValueError when the shapes do not).
harmonic_magnitude(an, bn) ==
    LET L == broadcast_len(Len(an), Len(bn))
    IN  IF L < 0 THEN Raise("ValueError")
        ELSE LET a == broadcast(an, L)
                 b == broadcast(bn, L)
             IN  Return(Array([j \in 1..L |->
                                  [sqrt_of |-> RAdd(RMul(a[j], a[j]), RMul(b[j], b[j]))]]))

\* The orders in which the indices in S (0-based) can follow one another so that the
\* square roots x[i] ascend: the next index is any one of those of a least element.
RECURSIVE argsort_from(_, _)
argsort_from(x, S) ==
    IF S = {} THEN {<<>>}
    ELSE UNION {{<<i>> \o rest : rest \in argsort_from(x, S \ {i})} :
                   i \in {i \in S : \A k \in S :
                             ~RLess(x[k + 1].sqrt_of, x[i + 1].sqrt_of)}}

\* np.argsort(x) of an array of square roots: the 0-based indices in ascending order of
\* the elements.  The default sort is not stable, so the order of the indices of equal
\* elements is any; this is the set of the arrays np.argsort can return.
argsort(x) == argsort_from(x, 0..(Len(x) - 1))

\* x[-n:] and x[::-1]
last(x, n) == SubSeq(x, IF Len(x) > n THEN Len(x) - n + 1 ELSE 1, Len(x))

reversed(x) == Array([j \in 1..Len(x) |-> x[Len(x) + 1 - j]])

\* The arrays np.argsort(magnitude) can return in get_harmonic_analysis(an, bn); the
\* line is not reached when magnitude raises.
sorted_magnitude_indices(an, bn) ==
    LET m == harmonic_magnitude(an, bn)
    IN  IF m.kind = "raise" THEN {<<>>} ELSE argsort(m.value)

\* thd with the fundamental's power counted among the distortion: np.sum(power) in place
\* of np.sum(power[1:]).
thd_with_fundamental(power) ==
    IF Len(power) > 0
    THEN Return([sqrt_of |-> RDiv(np_sum(power), RAdd(power[1], Epsilon)),
                 times |-> Rat(100)])
    ELSE Return([sqrt_of |-> Rat(0), times |-> Rat(100)])

\* thd without the test of len(power): power[0] of an empty array is an IndexError.
thd_unguarded(power) ==
    IF Len(power) = 0 THEN Raise("IndexError")
    ELSE Return([sqrt_of |-> RDiv(np_sum(SubSeq(power, 2, Len(power))),
                                  RAdd(power[1], Epsilon)),
                 times |-> Rat(100)])

\* np.sqrt(np.sum(power[1:]) / (power[0] + 1e-12)) * 100 if len(power) > 0 else 0, kept
\* as [sqrt_of |-> q, times |-> c] for c*sqrt(q); the 0 of the else branch is kept in
\* the same form.
thd(power) ==
    IF Len(power) > 0
    THEN Return([sqrt_of |-> RDiv(np_sum(SubSeq(power, 2, Len(power))),
                                  RAdd(power[1], Epsilon)),
                 times |-> Rat(100)])
    ELSE Return([sqrt_of |-> Rat(0), times |-> Rat(100)])

\* get_harmonic_analysis with the indices taken from the front of the ascending order.
get_harmonic_analysis_smallest(an, bn, sorted_indices) ==
    LET m == harmonic_magnitude(an, bn)
    IN  IF m.kind = "raise" THEN m
        ELSE LET magnitude == m.value
                 L == Len(magnitude)
                 a == broadcast(an, L)
                 b == broadcast(bn, L)
                 power == Array([j \in 1..L |-> magnitude[j].sqrt_of])
                 total_power == np_sum(power)
                 dominant_indices == SubSeq(sorted_indices, 1,
                                            IF L > DominantCount THEN DominantCount ELSE L)
                 distortion == thd(power)
             IN  IF distortion.kind = "raise" THEN distortion
                 ELSE Return(
                     [magnitude |-> magnitude,
                      phase |-> Array([j \in 1..L |->
                                          [arctan2_y |-> b[j], arctan2_x |-> a[j]]]),
                      power |-> power,
                      total_power |-> total_power,
                      power_percentage |->
                          Array([j \in 1..L |->
                                    RMul(RDiv(power[j], RAdd(total_power, Epsilon)),
                                         Rat(100))]),
                      dominant_harmonics |->
                          Array([j \in 1..Len(dominant_indices) |->
                                    dominant_indices[j] + 1]),
                      fundamental_power |-> IF L > 0 THEN power[1] ELSE Rat(0),
                      thd |-> distortion.value])

\* get_harmonic_analysis(an, bn), where sorted_indices is the array np.argsort(magnitude)
\* returns.  phase = np.arctan2(bn, an) is kept as the pairs of its arguments;
\* power = magnitude**2 is the radicand of magnitude.
get_harmonic_analysis(an, bn, sorted_indices) ==
    LET m == harmonic_magnitude(an, bn)
    IN  IF m.kind = "raise" THEN m
        ELSE LET magnitude == m.value
                 L == Len(magnitude)
                 a == broadcast(an, L)
                 b == broadcast(bn, L)
                 power == Array([j \in 1..L |-> magnitude[j].sqrt_of])
                 total_power == np_sum(power)
                 dominant_indices == reversed(last(sorted_indices, DominantCount))
                 distortion == thd(power)
             IN  IF distortion.kind = "raise" THEN distortion
                 ELSE Return(
                     [magnitude |-> magnitude,
                      phase |-> Array([j \in 1..L |->
                                          [arctan2_y |-> b[j], arctan2_x |-> a[j]]]),
                      power |-> power,
                      total_power |-> total_power,
                      power_percentage |->
                          Array([j \in 1..L |->
                                    RMul(RDiv(power[j], RAdd(total_power, Epsilon)),
                                         Rat(100))]),
                      dominant_harmonics |->
                          Array([j \in 1..Len(dominant_indices) |->
                                    dominant_indices[j] + 1]),
                      fundamental_power |-> IF L > 0 THEN power[1] ELSE Rat(0),
                      thd |-> distortion.value])

\* Python objects, where the class of a value matters: [type |-> its class,
\* value |-> its value].  x.tolist() is a list of Python floats and float(x) a Python
\* float; the results of numpy's array expressions are numpy.ndarray objects and those
\* of its reductions numpy.float64 objects.
tolist(x) == [type |-> "list", value |-> x]

float(x) == [type |-> "float", value |-> x]

int(x) == [type |-> "int", value |-> x]

ndarray(x) == [type |-> "numpy.ndarray", value |-> x]

float64(x) == [type |-> "numpy.float64", value |-> x]

\* The dict get_harmonic_analysis returned, as the objects it holds: the arrays and
\* scalars numpy computed, and the Python int 0 of the two else branches (N harmonics).
analysis_objects(analysis, N) ==
    [magnitude |-> ndarray(analysis.magnitude),
     phase |-> ndarray(analysis.phase),
     power |-> ndarray(analysis.power),
     total_power |-> float64(analysis.total_power),
     power_percentage |-> ndarray(analysis.power_percentage),
     dominant_harmonics |-> ndarray(analysis.dominant_harmonics),
     fundamental_power |-> IF N > 0 THEN float64(analysis.fundamental_power) ELSE int(0),
     thd |-> IF N > 0 THEN float64(analysis.thd) ELSE int(0)]

\* The dict compute_metrics returned, as the objects it holds.
metrics_objects(metrics) ==
    [rms_error |-> float64(metrics.rms_error),
     max_error |-> float64(metrics.max_error),
     snr_db |-> float64(metrics.snr_db),
     relative_error |-> float64(metrics.relative_error)]

\* export_data: the entries of the dict are evaluated in order, so an exception of
\* get_harmonic_analysis comes before one of compute_metrics.  The two nested dicts are
\* stored as returned.  sorted_indices is the array np.argsort returns within
\* get_harmonic_analysis.
export_data(t, original, reconstructed, a0, an, bn, sorted_indices) ==
    LET analysis == get_harmonic_analysis(an, bn, sorted_indices)
        metrics == compute_metrics(original, reconstructed)
    IN  IF analysis.kind = "raise" THEN analysis
        ELSE IF metrics.kind = "raise" THEN metrics
        ELSE Return(
            [time |-> tolist(t),
             original_signal |-> tolist(original),
             reconstructed_signal |-> tolist(reconstructed),
             coefficients |-> [a0 |-> float(a0), an |-> tolist(an), bn |-> tolist(bn)],
             analysis |-> analysis_objects(analysis.value, Len(analysis.value.power)),
             metrics |-> metrics_objects(metrics.value)])

(* ---------------------------------------------------------------- inputs *)

\* Periods an analyzer is constructed with (zero and negative included).
PeriodValues == {Rat(-2), Rat(0)}

\* Sample counts given to compute_coefficients: those whose sample times are whole
\* multiples of period/4, and a negative one.
PointCounts == {-1, 0, 1, 2, 4}

\* Values of the caller's function at the quarter points of its period.
FuncValues == {-1, 0, 1}

\* The sets of quarter points a caller's function raises at: nowhere, at time 0 (every
\* non-empty sample vector), at half a period (sample vectors of 2 or 4 points).
RaisePoints == {{}, {0}, {2}}

Functions == [values : [0..3 -> FuncValues], raises_on : RaisePoints]

A0Values == {Rat(0), Rat(3)}

\* The pairs <<an[k], bn[k]>> a harmonic is given.
HarmonicValues == {<<Rat(0), Rat(0)>>, <<Rat(1), Rat(3)>>, <<Rat(-2), Rat(0)>>}

\* The coefficient sets with N harmonics, as sequences of such pairs.
CoefficientSets(N) == [1..N -> HarmonicValues]

AnOf(c) == Array([k \in 1..Len(c) |-> c[k][1]])

BnOf(c) == Array([k \in 1..Len(c) |-> c[k][2]])

AnValues == {Rat(-2), Rat(0), Rat(1)}

BnValues == {Rat(0), Rat(3)}

SeqsUpTo(S, n) == UNION {[1..k -> S] : k \in 0..n}

\* The pairs <<an[k], bn[k]>> of a spectrum of more than MaxN harmonics.
SpectrumValues == {<<Rat(0), Rat(0)>>, <<Rat(-2), Rat(3)>>}

\* The spectra of MaxN + 1 .. MaxSpectrum harmonics.
Spectra == UNION {[1..N -> SpectrumValues] : N \in (MaxN + 1)..MaxSpectrum}

\* The pairs <<an, bn>> given to get_harmonic_analysis: every pair of arrays of up to
\* MaxN entries, of equal lengths or not, and the longer spectra.
AnalysisInputs ==
    (SeqsUpTo(AnValues, MaxN) \X SeqsUpTo(BnValues, MaxN))
        \cup {<<AnOf(c), BnOf(c)>> : c \in Spectra}

\* Time vectors, as whole multiples of period/4: the empty one and the quarter points
\* 1, 2, ..., MaxT.
TickVectors == {[j \in 1..k |-> j] : k \in {0, MaxT}}

TimeVector(ticks, self_period) ==
    Array([j \in 1..Len(ticks) |-> RDiv(RMul(Rat(ticks[j]), self_period), Rat(4))])

Masks == SeqsUpTo(BOOLEAN, MaxMask)

SignalValues == {Rat(-2), Rat(0), Rat(1)}

Signals == SeqsUpTo(SignalValues, MaxLen)

\* The original signals given to export_data.
ExportOriginals == SeqsUpTo({Rat(1)}, MaxLen)

\* The pairs <<an, bn>> given to export_data: the empty spectrum, the spectra of one
\* harmonic and a pair of arrays whose lengths do not broadcast.
ExportSpectra ==
    {<<AnOf(c), BnOf(c)>> : c \in CoefficientSets(0) \cup CoefficientSets(1)}
        \cup {<<zeros(2), zeros(3)>>}

(* ---------------------------------------------------------------- actions *)

\* The caller constructs an analyzer and calls one engine operation on it, again and
\* again.  The engine operations leave the analyzer as it is.

\* The program starts with FourierSeriesAnalyzer(): period = 2*pi.
Init ==
    /\ period = Rat(TwoPi)
    /\ omega0 = init(Rat(TwoPi)).value.omega0
    /\ op = "__init__"
    /\ args = [period |-> Rat(TwoPi)]
    /\ ret = Return("None")
    /\ func_calls = <<>>
    /\ pc = "constructed"
    /\ window = "None"

\* analyzer = FourierSeriesAnalyzer(p); when __init__ raises, the caller has no new
\* analyzer to call (pc = "failed") and the fields keep their values.
Construct ==
    \E p \in PeriodValues :
        LET r == init(p)
        IN  /\ op' = "__init__"
            /\ args' = [period |-> p]
            /\ func_calls' = <<>>
            /\ IF r.kind = "raise"
               THEN /\ ret' = r
                    /\ pc' = "failed"
                    /\ UNCHANGED <<period, omega0, window>>
               ELSE /\ ret' = Return("None")
                    /\ pc' = "constructed"
                    /\ period' = r.value.period
                    /\ omega0' = r.value.omega0
                    /\ UNCHANGED window

ComputeCoefficients ==
    /\ pc = "constructed"
    /\ \E func \in Functions, n_harmonics \in -1..MaxN, n_points \in PointCounts :
           /\ pc' = "called"
           /\ op' = "compute_coefficients"
           /\ args' = [func |-> func, n_harmonics |-> n_harmonics, n_points |-> n_points]
           /\ ret' = compute_coefficients(period, omega0, func, n_harmonics, n_points)
           /\ func_calls' = calls_of_func(period, n_points)
           /\ UNCHANGED <<period, omega0, window>>

SynthesizeProgressive ==
    /\ pc = "constructed"
    /\ \E a0 \in A0Values, N \in 0..MaxN, ticks \in TickVectors :
           \E c \in CoefficientSets(N) :
               LET t == TimeVector(ticks, period)
                   an == AnOf(c)
                   bn == BnOf(c)
               IN  /\ pc' = "called"
                   /\ op' = "synthesize_progressive"
                   /\ args' = [a0 |-> a0, an |-> an, bn |-> bn, t |-> t]
                   /\ ret' = synthesize_progressive(omega0, a0, an, bn, t)
                   /\ func_calls' = <<>>
                   /\ UNCHANGED <<period, omega0, window>>

SynthesizeSelective ==
    /\ pc = "constructed"
    /\ \E a0 \in A0Values, N \in 0..MaxN, ticks \in TickVectors, mask \in Masks :
           \E c \in CoefficientSets(N) :
               LET t == TimeVector(ticks, period)
                   an == AnOf(c)
                   bn == BnOf(c)
               IN  /\ pc' = "called"
                   /\ op' = "synthesize_selective"
                   /\ args' = [a0 |-> a0, an |-> an, bn |-> bn, t |-> t,
                               enabled_harmonics |-> mask]
                   /\ ret' = synthesize_selective(omega0, a0, an, bn, t, mask)
                   /\ func_calls' = <<>>
                   /\ UNCHANGED <<period, omega0, window>>

ComputeMetrics ==
    /\ pc = "constructed"
    /\ \E original \in Signals, reconstructed \in Signals :
           /\ pc' = "called"
           /\ op' = "compute_metrics"
           /\ args' = [original |-> original, reconstructed |-> reconstructed]
           /\ ret' = compute_metrics(original, reconstructed)
           /\ func_calls' = <<>>
           /\ UNCHANGED <<period, omega0, window>>

GetHarmonicAnalysis ==
    /\ pc = "constructed"
    /\ \E input \in AnalysisInputs :
           LET an == input[1]
               bn == input[2]
           IN  \E sorted_indices \in sorted_magnitude_indices(an, bn) :
                   /\ pc' = "called"
                   /\ op' = "get_harmonic_analysis"
                   /\ args' = [an |-> an, bn |-> bn]
                   /\ ret' = get_harmonic_analysis(an, bn, sorted_indices)
                   /\ func_calls' = <<>>
                   /\ UNCHANGED <<period, omega0, window>>

ExportData ==
    /\ pc = "constructed"
    /\ \E ticks \in TickVectors, original \in ExportOriginals, reconstructed \in Signals,
          a0 \in A0Values, spectrum \in ExportSpectra :
           LET t == TimeVector(ticks, period)
               an == spectrum[1]
               bn == spectrum[2]
           IN  \E sorted_indices \in sorted_magnitude_indices(an, bn) :
                   /\ pc' = "called"
                   /\ op' = "export_data"
                   /\ args' = [t |-> t, original |-> original,
                               reconstructed |-> reconstructed, a0 |-> a0,
                               an |-> an, bn |-> bn]
                   /\ ret' = export_data(t, original, reconstructed, a0, an, bn,
                                         sorted_indices)
                   /\ func_calls' = <<>>
                   /\ UNCHANGED <<period, omega0, window>>

Next ==
    \/ Construct
    \/ ComputeCoefficients
    \/ SynthesizeProgressive
    \/ SynthesizeSelective
    \/ ComputeMetrics
    \/ GetHarmonicAnalysis
    \/ ExportData

Spec == Init /\ [][Next]_vars

\* The caller that only extracts coefficients.
NextCoefficients ==
    \/ Construct
    \/ ComputeCoefficients

SpecCoefficients == Init /\ [][NextCoefficients]_vars

\* The caller that only synthesizes.
NextSynthesis ==
    \/ Construct
    \/ SynthesizeProgressive
    \/ SynthesizeSelective

SpecSynthesis == Init /\ [][NextSynthesis]_vars

\* The caller that only computes metrics.
NextMetrics ==
    \/ Construct
    \/ ComputeMetrics
    \/ GetHarmonicAnalysis

SpecMetrics == Init /\ [][NextMetrics]_vars

\* The caller that only exports.
NextExport ==
    \/ Construct
    \/ ExportData

SpecExport == Init /\ [][NextExport]_vars

(* ----------------------------------------------- FourierSeriesMainWindow *)

\* The window of fourier_ui.py.  Its numbers are seconds and plain factors, and the
\* period 2*pi of the analyzer it constructs is no rational number of seconds: a number
\* of the analyzer of the window is [rat |-> q, pi |-> k], the number q * pi^k with q an
\* exact rational.  The arrays of the window (2000 time samples, up to 50 harmonics) are
\* not computed: an array, or a list of arrays, is the record of the operation that made
\* it and of its arguments, so two arrays are equal here exactly when the same operation
\* made them from the same arguments.  Of the widgets the sliders, the value labels, the custom
\* function input, the harmonic checkboxes, the time plot and the metrics labels are
\* modelled; of the other plots only the reads that can raise.

\* Largest value the harmonics slider is moved to.
MaxHarmonics == 21

\* The user toggles the checkboxes H1 .. H<MaxToggle>.
MaxToggle == 2

\* range(20): the number of harmonic checkboxes.
CheckboxCount == 20

\* The number of samples of the time vector of update_analysis.
TimePoints == 2000

\* The default n_points of compute_coefficients.
CoefficientPoints == 2000

\* The rational number q as a number of the analyzer.
Real(q) == [rat |-> q, pi |-> 0]

\* 2*np.pi / x
two_pi_over(x) == [rat |-> RDiv(Rat(2), x.rat), pi |-> 1 - x.pi]

\* 2*np.pi, the default period of FourierSeriesAnalyzer.
two_pi == [rat |-> Rat(2), pi |-> 1]

\* FourierSeriesAnalyzer(): the analyzer the window constructs.
FourierSeriesAnalyzer == [period |-> two_pi, omega0 |-> two_pi_over(two_pi)]

min(a, b) == IF a < b THEN a ELSE b

\* The position list[n] of a Python list of length len reads, n 0-based: a negative n
\* counts from the end, an n outside the list raises IndexError.
index(len, n) ==
    IF n < len /\ n >= -len THEN Return(n % len) ELSE Raise("IndexError")

\* list[n] of a list given as a sequence.
getitem(list, n) ==
    LET i == index(Len(list), n)
    IN  IF i.kind = "raise" THEN i ELSE Return(list[i.value + 1])

RECURSIVE Pow10(_)
Pow10(k) == IF k = 0 THEN 1 ELSE 10 * Pow10(k - 1)

\* The whole number nearest to the rational q >= 0; a tie goes to the even one.  (The
\* binary representation of q, which decides the ties of a float, is not modelled; the
\* slider values drawn give no tie.)
round_half_even(q) ==
    LET whole == q[1] \div q[2]
        twice_rest == 2 * (q[1] - whole * q[2])
    IN  IF twice_rest < q[2] THEN whole
        ELSE IF twice_rest > q[2] THEN whole + 1
        ELSE IF whole % 2 = 0 THEN whole ELSE whole + 1

\* f"{x:.<places>f}": the text of x rounded to places decimals.  A text of a number is
\* [digits |-> d, places |-> p], the decimal d / 10^p written with p decimals.
format_fixed(x, places) ==
    [digits |-> round_half_even(RMul(x, Rat(Pow10(places)))), places |-> places]

\* str(value) of an int.
str(value) == [digits |-> value, places |-> 0]

\* float(text)
float_text(text) == Norm(text.digits, Pow10(text.places))

\* int(text) of a text without decimals.
int_text(text) == text.digits

\* value / 100.0
hundredths(value) == Norm(value, 100)

\* The functions current_function can hold.  None, a function of the library of the
\* analyzer (name is its key), or the custom_func made from an expression (name is the
\* expression).
None == [kind |-> "None", name |-> ""]

predefined_functions(func_key) == [kind |-> "predefined", name |-> func_key]

custom_func(expr) == [kind |-> "custom", name |-> expr]

\* eval(expr, {..., "t": t}): the expression 1/0 raises ZeroDivisionError, the other
\* expressions drawn give an array.
eval(expr, t) ==
    IF expr = "1/0" THEN Raise("ZeroDivisionError")
    ELSE Return([function |-> custom_func(expr), T |-> <<>>, t |-> t])

\* function(t).  A library function reads the period of the analyzer when it is called
\* (T or self.period); custom_func evaluates its expression.
call_function(function, t, analyzer) ==
    IF function.kind = "custom" THEN eval(function.name, t)
    ELSE Return([function |-> function, T |-> <<analyzer.period>>, t |-> t])

\* np.linspace(start, stop, num) as a description of the array.
linspace_array(start, stop, num) == [start |-> start, stop |-> stop, num |-> num]

\* samples * amplitude
times_amplitude(samples, amplitude) == [samples |-> samples, amplitude |-> amplitude]

\* self.analyzer.compute_coefficients(wrapped_function, n_harmonics), where
\* wrapped_function(tt) is current_function(tt) * amplitude: the coefficients of the
\* samples of wrapped_function on linspace(0, period, 2000), with period and omega0 of
\* the analyzer.  an[k] and bn[k] are entries k of that coefficient set, written k here.
window_coefficients(analyzer, function, amplitude, n_harmonics) ==
    LET t == linspace_array(Real(Rat(0)), analyzer.period, CoefficientPoints)
        fs == call_function(function, t, analyzer)
    IN  IF fs.kind = "raise" THEN fs
        ELSE Return([source |-> [f_samples |-> times_amplitude(fs.value, amplitude),
                                 period |-> analyzer.period,
                                 omega0 |-> analyzer.omega0,
                                 n_harmonics |-> n_harmonics],
                     an |-> Array([k \in 1..n_harmonics |-> k]),
                     bn |-> Array([k \in 1..n_harmonics |-> k])])

\* A synthesized signal: a0/2 of the coefficient set plus the harmonics named (1-based)
\* at angular frequency omega0 over the time vector t.
signal_of(coefficients, self_omega0, t, harmonics) ==
    [source |-> coefficients.source, omega0 |-> self_omega0, t |-> t,
     harmonics |-> harmonics]

\* self.analyzer.synthesize_progressive(a0, an, bn, t): the list of len(an) + 1
\* signals.
window_progressive(analyzer, coefficients, t) ==
    [source |-> coefficients.source, omega0 |-> analyzer.omega0, t |-> t,
     length |-> Len(coefficients.an) + 1]

\* progressive_data[n]: element i of the list has a0/2 and the harmonics 1..i.
progressive_item(list, n) ==
    LET i == index(list.length, n)
    IN  IF i.kind = "raise" THEN i
        ELSE Return(signal_of(list, list.omega0, list.t, 1..i.value))

\* self.analyzer.synthesize_selective(a0, an, bn, t, enabled): harmonic n+1 is added for
\* every n the loop of synthesize_selective selects.
window_selective(analyzer, coefficients, t, enabled) ==
    signal_of(coefficients, analyzer.omega0, t,
              {n + 1 : n \in {m \in 0..(Len(enabled) - 1) :
                                 harmonic_selected(m, enabled[m + 1], coefficients.an)}})

\* np.sqrt(np.mean((original - reconstruction)**2))
rms_error_of(original, reconstruction) ==
    [original |-> original, reconstruction |-> reconstruction]

\* hasattr(self, name)
hasattr(self, name) == name \in self.attributes

\* self.<name> = value
setattr(self, name, value) ==
    [[self EXCEPT ![name] = value] EXCEPT !.attributes = @ \cup {name}]

\* A slot ends with an exception: the traceback goes to stderr and the event loop goes
\* on.
raised(self, exc) == [self EXCEPT !.stderr = Append(@, exc)]

\* What the time plot shows: the original, a reconstruction, and in an animation frame
\* the harmonic count of the title and the RMS error of the text box.
time_plot_of(kind, original, signal, harmonics, rms_error) ==
    [kind |-> kind, original |-> original, signal |-> signal,
     harmonics |-> harmonics, rms_error |-> rms_error]

\* update_metrics: the labels show the metrics of original against reconstructed.
update_metrics(self, original, reconstructed) ==
    [self EXCEPT !.metrics_labels = <<rms_error_of(original, reconstructed)>>]

\* The convergence data update_analysis stores: the list rms_errors with one RMS error
\* per h in 1..len(an).
convergence_data_of(self, coefficients) ==
    [rms_errors |-> [original |-> self.original_data, source |-> coefficients.source,
                     omega0 |-> self.analyzer.omega0, t |-> self.t_data,
                     length |-> Len(coefficients.an)]]

\* rms_errors[n]: element i of the list was appended for h = i + 1, the error of the
\* reconstruction with a0/2 and the harmonics 1..h over t_data.
rms_errors_item(list, n) ==
    LET i == index(list.length, n)
    IN  IF i.kind = "raise" THEN i
        ELSE Return(rms_error_of(list.original,
                                 signal_of(list, list.omega0, list.t,
                                           {m + 1 : m \in 0..i.value})))

\* update_analysis (period_s is its local period, in seconds): nothing happens without a function or when the function raises on
\* the time vector; otherwise the coefficients, the plots, the metrics and the data of
\* the animation are renewed from the texts of the three value labels.
update_analysis(self) ==
    IF self.current_function = None THEN self
    ELSE LET period_s == float_text(self.period_value)
             n_harmonics == int_text(self.harmonics_value)
             amplitude == float_text(self.amplitude_value)
             t == linspace_array(Real(Rat(0)), Real(RMul(Rat(2), period_s)), TimePoints)
             fs == call_function(self.current_function, t, self.analyzer)
         IN  IF fs.kind = "raise" THEN self
             ELSE LET original == times_amplitude(fs.value, amplitude)
                      coefficients == window_coefficients(self.analyzer,
                                          self.current_function, amplitude,
                                          n_harmonics).value
                      progressive == window_progressive(self.analyzer, coefficients, t)
                      reconstructed == progressive_item(progressive, -1).value
                      s1 == setattr(self, "current_coefficients", coefficients)
                      s2 == [s1 EXCEPT !.time_plot =
                                time_plot_of("analysis", original, reconstructed, -1, <<>>)]
                      s3 == update_metrics(s2, original, reconstructed)
                      s4 == setattr(s3, "progressive_data", progressive)
                      s5 == setattr(s4, "t_data", t)
                      s6 == setattr(s5, "original_data", original)
                  IN  setattr(s6, "convergence_data",
                              convergence_data_of(s6, coefficients))

\* update_selective_3d_plot: for h in range(1, max_display_harmonics + 1, 2) and n in
\* range(h) it reads enabled_harmonics[n] when n < len(an); these n are the ones below
\* the largest odd h.
update_selective_3d_plot(an, enabled_harmonics) ==
    LET max_display_harmonics == min(20, Len(an))
        largest_h == IF max_display_harmonics % 2 = 1 THEN max_display_harmonics
                     ELSE max_display_harmonics - 1
    IN  IF \E n \in 0..(largest_h - 1) :
               n < Len(an) /\ index(Len(enabled_harmonics), n).kind = "raise"
        THEN Raise("IndexError") ELSE Return("None")

\* update_selective_convergence_plot: for h in 1..len(an) and n in range(h) it reads
\* enabled_harmonics[n] when n < len(an); these n are the ones below len(an).
update_selective_convergence_plot(an, enabled_harmonics) ==
    IF \E n \in 0..(Len(an) - 1) :
           n < Len(an) /\ index(Len(enabled_harmonics), n).kind = "raise"
    THEN Raise("IndexError") ELSE Return("None")

\* update_selective_plots: the time plot, then the plots that index enabled_harmonics.
update_selective_plots(self, t, original, reconstructed, an, enabled_harmonics) ==
    LET plotted == [self EXCEPT !.time_plot =
                        time_plot_of("selective", original, reconstructed, -1, <<>>)]
        plot_3d == update_selective_3d_plot(an, enabled_harmonics)
        convergence_plot == update_selective_convergence_plot(an, enabled_harmonics)
    IN  IF plot_3d.kind = "raise" THEN raised(plotted, plot_3d.exc)
        ELSE IF convergence_plot.kind = "raise" THEN raised(plotted, convergence_plot.exc)
        ELSE plotted

\* update_selective_synthesis, the slot of stateChanged of every checkbox.
update_selective_synthesis(self) ==
    IF ~hasattr(self, "progressive_data") \/ self.progressive_data.length = 0 THEN self
    ELSE LET enabled == Array([i \in 1..Len(self.harmonic_checkboxes) |->
                                  self.harmonic_checkboxes[i].checked])
         IN  IF \/ ~hasattr(self, "t_data")
                \/ ~hasattr(self, "original_data")
                \/ ~hasattr(self, "current_coefficients")
             THEN self
             ELSE LET coefficients == self.current_coefficients
                      selective_reconstructed ==
                          window_selective(self.analyzer, coefficients, self.t_data,
                                           enabled)
                      plotted == update_selective_plots(self, self.t_data,
                                     self.original_data, selective_reconstructed,
                                     coefficients.an, enabled)
                  IN  IF Len(plotted.stderr) > Len(self.stderr) THEN plotted
                      ELSE update_metrics(plotted, self.original_data,
                                          selective_reconstructed)

\* cb.setChecked(checked) of checkbox i (0-based): stateChanged is emitted, and the slot
\* runs, only when the state changes.
setChecked(self, i, checked) ==
    IF self.harmonic_checkboxes[i + 1].checked = checked THEN self
    ELSE update_selective_synthesis(
             [self EXCEPT !.harmonic_checkboxes[i + 1].checked = checked])

setVisible(self, i, visible) ==
    [self EXCEPT !.harmonic_checkboxes[i + 1].visible = visible]

\* The loop of update_harmonic_checkboxes from checkbox i on.
RECURSIVE checkbox_loop(_, _, _)
checkbox_loop(self, i, n_harmonics) ==
    IF i >= Len(self.harmonic_checkboxes) THEN self
    ELSE checkbox_loop(
             IF i < n_harmonics THEN setChecked(setVisible(self, i, TRUE), i, TRUE)
             ELSE setChecked(setVisible(self, i, FALSE), i, FALSE),
             i + 1, n_harmonics)

update_harmonic_checkboxes(self, n_harmonics) == checkbox_loop(self, 0, n_harmonics)

load_predefined_function(self, func_key) ==
    update_analysis([self EXCEPT !.current_function = predefined_functions(func_key)])

\* apply_custom_function: custom_func is only defined inside the try block, so nothing
\* raises there; the expression is evaluated when update_analysis calls the function.
apply_custom_function(self) ==
    update_analysis([self EXCEPT !.current_function = custom_func(self.custom_func_input)])

load_default_function(self) == load_predefined_function(self, "square")

update_period(self, value) ==
    LET period_s == hundredths(value)
    IN  update_analysis(
            [self EXCEPT !.period_value = format_fixed(period_s, 2),
                         !.analyzer = [period |-> Real(period_s),
                                       omega0 |-> two_pi_over(Real(period_s))]])

update_harmonics(self, value) ==
    update_analysis(
        update_harmonic_checkboxes([self EXCEPT !.harmonics_value = str(value)], value))

update_amplitude(self, value) ==
    LET amplitude == hundredths(value)
    IN  update_analysis([self EXCEPT !.amplitude_value = format_fixed(amplitude, 1)])

start_animation(self) ==
    [self EXCEPT !.animation_step = 0, !.animation_timer = "active"]

pause_animation(self) == [self EXCEPT !.animation_timer = "stopped"]

reset_animation(self) ==
    [self EXCEPT !.animation_timer = "stopped", !.animation_step = 0]

\* animate_step that leaves the timer running at the end of the list.
animate_step_keeps_running(self) ==
    IF \/ ~hasattr(self, "progressive_data")
       \/ self.animation_step >= self.progressive_data.length
    THEN self
    ELSE LET frame == progressive_item(self.progressive_data, self.animation_step)
             rms_errors == self.convergence_data.rms_errors
             current_error ==
                 rms_errors_item(rms_errors,
                                 min(self.animation_step, rms_errors.length - 1))
         IN  [self EXCEPT
                 !.time_plot =
                     time_plot_of("animation", self.original_data, frame.value,
                                  self.animation_step, <<current_error.value>>),
                 !.animation_step = @ + 1]

\* animate_step with the test animation_step > len(progressive_data).
animate_step_past_end(self) ==
    IF \/ ~hasattr(self, "progressive_data")
       \/ self.animation_step > self.progressive_data.length
    THEN [self EXCEPT !.animation_timer = "stopped"]
    ELSE LET frame == progressive_item(self.progressive_data, self.animation_step)
         IN  IF frame.kind = "raise" THEN raised(self, frame.exc)
             ELSE LET rms_errors == self.convergence_data.rms_errors
                      current_error ==
                          rms_errors_item(rms_errors,
                              min(self.animation_step, rms_errors.length - 1))
                  IN  [self EXCEPT
                          !.time_plot =
                              time_plot_of("animation", self.original_data,
                                  frame.value, self.animation_step,
                                  <<current_error.value>>),
                          !.animation_step = @ + 1]

\* animate_step, the slot of the timeout of animation_timer.
animate_step(self) ==
    IF \/ ~hasattr(self, "progressive_data")
       \/ self.animation_step >= self.progressive_data.length
    THEN [self EXCEPT !.animation_timer = "stopped"]
    ELSE LET frame == progressive_item(self.progressive_data, self.animation_step)
         IN  IF frame.kind = "raise" THEN raised(self, frame.exc)
             ELSE LET rms_errors == self.convergence_data.rms_errors
                      current_error ==
                          IF hasattr(self, "convergence_data")
                          THEN rms_errors_item(rms_errors,
                                   min(self.animation_step, rms_errors.length - 1))
                          ELSE Return("None")
                  IN  IF current_error.kind = "raise" THEN raised(self, current_error.exc)
                      ELSE [self EXCEPT
                               !.time_plot =
                                   time_plot_of("animation", self.original_data,
                                       frame.value, self.animation_step,
                                       IF hasattr(self, "convergence_data")
                                       THEN <<current_error.value>> ELSE <<>>),
                               !.animation_step = @ + 1]

\* The window during __init__: the fields and widgets made before
\* load_default_function.  The sliders are set before their signals are connected.
new_window ==
    [analyzer |-> FourierSeriesAnalyzer,
     current_function |-> None,
     animation_timer |-> "stopped",
     animation_step |-> 0,
     progressive_data |-> [length |-> 0],
     custom_func_input |-> "np.sin(2*np.pi*t)",
     period_slider |-> 628,
     period_value |-> [digits |-> 628, places |-> 2],
     harmonics_slider |-> 15,
     harmonics_value |-> [digits |-> 15, places |-> 0],
     amplitude_slider |-> 100,
     amplitude_value |-> [digits |-> 10, places |-> 1],
     harmonic_checkboxes |-> Array([i \in 1..CheckboxCount |->
                                       [checked |-> TRUE, visible |-> TRUE]]),
     time_plot |-> <<>>,
     metrics_labels |-> <<>>,
     current_coefficients |-> <<>>,
     t_data |-> <<>>,
     original_data |-> <<>>,
     convergence_data |-> <<>>,
     attributes |-> {"progressive_data"},
     stderr |-> <<>>]

\* FourierSeriesMainWindow(): __init__ ends with load_default_function() and
\* update_harmonic_checkboxes(15).
main_window == update_harmonic_checkboxes(load_default_function(new_window), 15)

\* The events of the window.  The user presses a function button, enters a custom
\* expression and applies it, moves a slider to another value (valueChanged is emitted
\* only for a new value), clicks a visible checkbox, presses Play, Pause or Reset; the
\* timer ticks while it is active.  Every slot runs to its end before the next event.

FunctionKeys == {"square"}

Expressions == {"np.sin(2*np.pi*t)", "1/0"}

\* Values of the period slider (range 100..2000).
PeriodSliderValues == {100, 628}

\* Values of the harmonics slider (range 1..50).
HarmonicsSliderValues == {15, CheckboxCount, MaxHarmonics}

\* Values of the amplitude slider (range 10..500).
AmplitudeSliderValues == {100, 121, 122}

\* The state after FourierSeriesMainWindow().  period and omega0, the fields of an
\* analyzer used without a window, have the values of Init and no part in the events.
InitWindow ==
    /\ period = Rat(TwoPi)
    /\ omega0 = init(Rat(TwoPi)).value.omega0
    /\ op = "__init__"
    /\ args = <<>>
    /\ ret = Return("None")
    /\ func_calls = <<>>
    /\ pc = "constructed"
    /\ window = [main_window EXCEPT !.stderr = <<>>]

\* The slots of an event have run and left the window as new: op and args name the
\* event, ret is Raise(exc) when a slot that ran during the event ended with the
\* exception exc.
Event(name, arguments, new) ==
    /\ op' = name
    /\ args' = arguments
    /\ ret' = IF new.stderr = <<>> THEN Return("None") ELSE Raise(new.stderr[1])
    /\ window' = [new EXCEPT !.stderr = <<>>]
    /\ UNCHANGED <<period, omega0, func_calls, pc>>

LoadPredefinedFunction ==
    \E func_key \in FunctionKeys :
        \E new \in {load_predefined_function(window, func_key)} :
            Event("load_predefined_function", [func_key |-> func_key], new)

ApplyCustomFunction ==
    \E expr \in Expressions :
        \E new \in {apply_custom_function([window EXCEPT !.custom_func_input = expr])} :
            Event("apply_custom_function", [expr |-> expr], new)

UpdatePeriod ==
    \E value \in PeriodSliderValues :
        /\ value # window.period_slider
        /\ \E new \in {update_period([window EXCEPT !.period_slider = value], value)} :
               Event("update_period", [value |-> value], new)

UpdateHarmonics ==
    \E value \in HarmonicsSliderValues :
        /\ value # window.harmonics_slider
        /\ \E new \in {update_harmonics([window EXCEPT !.harmonics_slider = value],
                                        value)} :
               Event("update_harmonics", [value |-> value], new)

UpdateAmplitude ==
    \E value \in AmplitudeSliderValues :
        /\ value # window.amplitude_slider
        /\ \E new \in {update_amplitude([window EXCEPT !.amplitude_slider = value],
                                        value)} :
               Event("update_amplitude", [value |-> value], new)

\* The user clicks checkbox i: its state flips and stateChanged runs the slot.
ToggleCheckbox ==
    \E i \in 0..(MaxToggle - 1) :
        /\ window.harmonic_checkboxes[i + 1].visible
        /\ \E new \in {setChecked(window, i, ~window.harmonic_checkboxes[i + 1].checked)} :
               Event("update_selective_synthesis", [checkbox |-> i], new)

StartAnimation ==
    \E new \in {start_animation(window)} : Event("start_animation", <<>>, new)

PauseAnimation ==
    \E new \in {pause_animation(window)} : Event("pause_animation", <<>>, new)

ResetAnimation ==
    \E new \in {reset_animation(window)} : Event("reset_animation", <<>>, new)

\* A tick of animation_timer.
AnimateStep ==
    /\ window.animation_timer = "active"
    /\ \E new \in {animate_step(window)} : Event("animate_step", <<>>, new)

\* The user at the controls of the analysis.
NextControls ==
    \/ LoadPredefinedFunction
    \/ ApplyCustomFunction
    \/ UpdatePeriod
    \/ UpdateHarmonics
    \/ UpdateAmplitude
    \/ ToggleCheckbox

SpecControls == InitWindow /\ [][NextControls]_vars

\* The user at the animation: the buttons, the ticks, and the harmonics slider, which
\* replaces progressive_data by a list of another length.
NextAnimation ==
    \/ UpdateHarmonics
    \/ StartAnimation
    \/ PauseAnimation
    \/ ResetAnimation
    \/ AnimateStep

SpecAnimation == InitWindow /\ [][NextAnimation]_vars

\* The event loop delivers the timeout of an active timer: a tick that stays possible
\* happens.
FairSpecAnimation == SpecAnimation /\ WF_vars(AnimateStep)

(* ------------------------------------------------------ synthesis claims *)

\* The sum of F[k] over the k in S.
RECURSIVE SumOver(_, _)
SumOver(F, S) ==
    IF S = {} THEN Rat(0)
    ELSE LET k == CHOOSE x \in S : TRUE IN RAdd(F[k], SumOver(F, S \ {k}))

\* an[k-1]*cos(k*omega0*t) + bn[k-1]*sin(k*omega0*t) at sample j of the time vector of
\* the call, for the arguments of the last synthesis call (k is the harmonic, 1-based).
HarmonicTerm(k, j) ==
    LET angle == RMul(RMul(Rat(k), omega0), args.t[j])
    IN  RAdd(RMul(args.an[k], np_cos(angle)), RMul(args.bn[k], np_sin(angle)))

\* a0/2 plus the terms of the harmonics in S, at sample j.
PartialSum(S, j) ==
    RAdd(RDiv(args.a0, Rat(2)), SumOver([k \in S |-> HarmonicTerm(k, j)], S))

Samples == 1..Len(args.t)

\* C1: synthesize_progressive returns N+1 arrays of the length of t; element i is, at
\* every sample, a0/2 plus the terms of harmonics 1..i, so element 0 is the constant a0/2
\* and element i is element i-1 plus the term of harmonic i.
C1_ProgressivePartialSums ==
    op = "synthesize_progressive" =>
        /\ ret.kind = "return"
        /\ Len(ret.value) = Len(args.an) + 1
        /\ \A i \in 0..Len(args.an) :
               /\ Len(ret.value[i + 1]) = Len(args.t)
               /\ \A j \in Samples :
                      /\ ret.value[i + 1][j] = PartialSum(1..i, j)
                      /\ i = 0 => ret.value[1][j] = RDiv(args.a0, Rat(2))
                      /\ i > 0 => RSub(ret.value[i + 1][j], ret.value[i][j])
                                      = HarmonicTerm(i, j)

C1_Witness ==
    /\ op = "synthesize_progressive"
    /\ Len(args.an) = MaxN
    /\ Len(args.t) = MaxT
    /\ ~IsZero(args.a0)
    /\ \A k \in 1..Len(args.an) : ~IsZero(args.an[k]) /\ ~IsZero(args.bn[k])

\* The harmonics (1-based) the mask of the last synthesize_selective call enables among
\* the N harmonics there are.
EnabledHarmonics ==
    {k \in 1..Len(args.an) : k <= Len(args.enabled_harmonics) /\ args.enabled_harmonics[k]}

Min(a, b) == IF a < b THEN a ELSE b

\* C2: for a mask of any length synthesize_selective returns a0/2 plus the terms of
\* exactly the harmonics k+1 with k < len(mask), mask[k] and k < N; mask entries at
\* positions >= N raise nothing and change nothing (the result is that of the mask cut
\* to N entries), and harmonics at positions >= len(mask) count as disabled.
C2_SelectiveMask ==
    op = "synthesize_selective" =>
        /\ ret.kind = "return"
        /\ Len(ret.value) = Len(args.t)
        /\ \A j \in Samples : ret.value[j] = PartialSum(EnabledHarmonics, j)
        /\ ret = synthesize_selective(omega0, args.a0, args.an, args.bn, args.t,
                     SubSeq(args.enabled_harmonics, 1,
                            Min(Len(args.enabled_harmonics), Len(args.an))))

C2_Witness ==
    /\ op = "synthesize_selective"
    /\ Len(args.an) = 2
    /\ Len(args.enabled_harmonics) = MaxMask
    /\ args.enabled_harmonics[1] /\ ~args.enabled_harmonics[2]
    /\ args.enabled_harmonics[MaxMask]
    /\ Len(args.t) = MaxT
    /\ \A k \in 1..Len(args.an) : ~IsZero(args.an[k]) /\ ~IsZero(args.bn[k])

\* C3: the last element of synthesize_progressive equals synthesize_selective with the
\* all-true mask of length N, elementwise.
C3_ReconstructionCompleteness ==
    (/\ op = "synthesize_selective"
     /\ Len(args.enabled_harmonics) = Len(args.an)
     /\ \A k \in 1..Len(args.enabled_harmonics) : args.enabled_harmonics[k]) =>
        LET progressive == synthesize_progressive(omega0, args.a0, args.an, args.bn, args.t)
        IN  /\ ret.kind = "return"
            /\ progressive.kind = "return"
            /\ ret.value = progressive.value[Len(args.an) + 1]

C3_Witness ==
    /\ op = "synthesize_selective"
    /\ Len(args.an) = MaxN
    /\ Len(args.enabled_harmonics) = MaxN
    /\ \A k \in 1..MaxN : args.enabled_harmonics[k]
    /\ Len(args.t) = MaxT
    /\ ~IsZero(args.a0)
    /\ \A k \in 1..Len(args.an) : ~IsZero(args.an[k]) /\ ~IsZero(args.bn[k])

\* The indices the mask of the last synthesize_selective call is true at.
MaskSet == {k \in 1..Len(args.enabled_harmonics) : args.enabled_harmonics[k]}

\* C4: for every subset S of 1..N, contiguous or not, synthesize_selective with the mask
\* true exactly on S equals progressive[0] plus the sum over k in S of
\* progressive[k] - progressive[k-1], elementwise.
C4_SelectiveFromProgressive ==
    (op = "synthesize_selective" /\ MaskSet \subseteq 1..Len(args.an)) =>
        LET progressive ==
                synthesize_progressive(omega0, args.a0, args.an, args.bn, args.t).value
        IN  /\ ret.kind = "return"
            /\ Len(ret.value) = Len(args.t)
            /\ \A j \in Samples :
                   ret.value[j] =
                       RAdd(progressive[1][j],
                            SumOver([k \in MaskSet |->
                                        RSub(progressive[k + 1][j], progressive[k][j])],
                                    MaskSet))

C4_Witness ==
    /\ op = "synthesize_selective"
    /\ Len(args.an) = 3
    /\ MaskSet = {1, 3}
    /\ Len(args.t) = MaxT
    /\ \A k \in 1..Len(args.an) : ~IsZero(args.an[k]) /\ ~IsZero(args.bn[k])

\* C5: synthesize_selective with an all-false mask, an empty mask or N = 0 raises
\* nothing and returns an array of the length of t with a0/2 everywhere.
C5_ZeroHarmonicIdentity ==
    (/\ op = "synthesize_selective"
     /\ \/ MaskSet = {}
        \/ Len(args.an) = 0) =>
        /\ ret.kind = "return"
        /\ Len(ret.value) = Len(args.t)
        /\ \A j \in Samples : ret.value[j] = RDiv(args.a0, Rat(2))

C5_Witness ==
    /\ op = "synthesize_selective"
    /\ Len(args.enabled_harmonics) = MaxN
    /\ MaskSet = {}
    /\ Len(args.an) = MaxN
    /\ Len(args.t) = MaxT
    /\ ~IsZero(args.a0)
    /\ \A k \in 1..Len(args.an) : ~IsZero(args.an[k]) /\ ~IsZero(args.bn[k])

\* C19: the N+1 arrays synthesize_progressive returns are independent: each element is
\* an array of its own (no two elements are one array, none is the running signal or an
\* argument array) and holds, when the call returns, the partial sum it had when it was
\* appended, whatever was added to the running signal afterwards.
C19_IndependentReconstructions ==
    op = "synthesize_progressive" =>
        LET r == synthesize_progressive_objects(omega0, args.a0, args.an, args.bn, args.t)
            refs == r.reconstructions
        IN  /\ ret.kind = "return"
            /\ Len(refs) = Len(args.an) + 1
            /\ \A i \in 1..Len(refs) :
                   /\ refs[i][1] = "copy"
                   /\ \A k \in 1..Len(refs) : k # i => refs[k] # refs[i]
                   /\ ret.value[i] = read(r.store, refs[i])
                   /\ \A j \in Samples :
                          read(r.store, refs[i])[j] = PartialSum(1..(i - 1), j)

C19_Witness ==
    /\ op = "synthesize_progressive"
    /\ Len(args.an) = MaxN
    /\ Len(args.t) = MaxT
    /\ \A k \in 1..Len(args.an) : ~IsZero(args.an[k]) /\ ~IsZero(args.bn[k])
    /\ ret.kind = "return"
    /\ \A i \in 1..MaxN : ret.value[i] # ret.value[i + 1]

(* ---------------------------------------------------- coefficient claims *)

\* The quarter point of the period that sample j (0-based) of n_points samples spaced
\* period/n_points apart from 0 falls on.
SampleTick(j) == (4 * j) \div args.n_points

\* func times the cosine (Table = CosTable) or sine (Table = SinTable) of harmonic k at
\* sample j (0-based): the angle k*omega0*t there is k quarter turns per quarter point.
Product(Table, k, j) ==
    args.func.values[SampleTick(j) % 4] * Table[((k * SampleTick(j)) % 4) + 1]

RECURSIVE IntSum(_, _)
IntSum(F, S) ==
    IF S = {} THEN 0
    ELSE LET k == CHOOSE x \in S : TRUE IN F[k] + IntSum(F, S \ {k})

\* (2/period) times the trapezoid sum of those products over the samples: each of the
\* n_points - 1 intervals is period/n_points wide.
ExpectedCoefficient(Table, k) ==
    LET n == args.n_points
        pairs == 0..(n - 2)
    IN  IF n < 2 THEN Rat(0)
        ELSE Norm(IntSum([j \in pairs |-> Product(Table, k, j) + Product(Table, k, j + 1)],
                         pairs),
                  n)

\* The caller's function raised on the sample vector of the last compute_coefficients
\* call.
FuncRaises ==
    /\ op = "compute_coefficients"
    /\ Len(func_calls) >= 1
    /\ call_func(args.func, func_calls[1], period).kind = "raise"

\* C6: for N >= 0 compute_coefficients returns an and bn of exactly N entries each
\* (empty for N = 0, no error), and entry k (0-based) is computed from the samples of f
\* times the cosine, respectively sine, of harmonic k+1.
C6_CoefficientLayout ==
    (/\ op = "compute_coefficients"
     /\ args.n_harmonics >= 0
     /\ args.n_points >= 0
     /\ ~FuncRaises) =>
        /\ ret.kind = "return"
        /\ Len(ret.value.an) = args.n_harmonics
        /\ Len(ret.value.bn) = args.n_harmonics
        /\ \A k \in 1..args.n_harmonics :
               /\ ret.value.an[k] = ExpectedCoefficient(CosTable, k)
               /\ ret.value.bn[k] = ExpectedCoefficient(SinTable, k)

C6_Witness ==
    /\ op = "compute_coefficients"
    /\ args.n_harmonics = MaxN
    /\ args.n_points = 4
    /\ ret.kind = "return"
    /\ ~IsZero(ret.value.an[1]) /\ ~IsZero(ret.value.bn[1]) /\ ~IsZero(ret.value.an[2])
    /\ ret.value.an[1] # ret.value.an[2]

IsConstant(func) == \A q \in DOMAIN func.values : func.values[q] = func.values[0]

\* C7: compute_coefficients integrates over one full period: the trapezoid intervals
\* span a width of period, so a constant function c yields a0 = 2c for n_points >= 2.
C7_FullPeriod ==
    (/\ op = "compute_coefficients"
     /\ args.n_points >= 2
     /\ ret.kind = "return") =>
        /\ RSub(func_calls[1][args.n_points], func_calls[1][1]) = period
        /\ IsConstant(args.func) => ret.value.a0 = Rat(2 * args.func.values[0])

\* C8: compute_coefficients evaluates f on exactly n_points sample times
\* t_j = j*period/n_points, j = 0..n_points-1: equally spaced, from 0, strictly
\* increasing, all strictly less than period.
C8_SampleTimes ==
    (op = "compute_coefficients" /\ args.n_points >= 1 /\ RLess(Rat(0), period)) =>
        /\ Len(func_calls) = 1
        /\ Len(func_calls[1]) = args.n_points
        /\ func_calls[1][1] = Rat(0)
        /\ \A j \in 1..args.n_points :
               /\ func_calls[1][j] = RDiv(RMul(Rat(j - 1), period), Rat(args.n_points))
               /\ RLess(func_calls[1][j], period)
               /\ j > 1 => RLess(func_calls[1][j - 1], func_calls[1][j])

C8_Witness ==
    /\ op = "compute_coefficients"
    /\ args.n_points = 4
    /\ RLess(Rat(0), period)
    /\ Len(func_calls) = 1

\* C9: coefficient extraction reports an error at once, and returns no coefficient set,
\* when the configured period is <= 0, the harmonic count is negative or n_points < 2.
C9_InvalidParameter ==
    (/\ op = "compute_coefficients"
     /\ \/ ~RLess(Rat(0), period)
        \/ args.n_harmonics < 0
        \/ args.n_points < 2) =>
        ret.kind = "raise"

\* C11: when the caller's function raises on the sample vector, compute_coefficients has
\* called it exactly once, the call ends with that same exception, and no coefficient
\* set is returned.
C11_FuncFailurePropagates ==
    FuncRaises =>
        /\ Len(func_calls) = 1
        /\ ret = call_func(args.func, func_calls[1], period)
        /\ ret.kind # "return"

C11_Witness ==
    /\ FuncRaises
    /\ args.func.raises_on = {2}
    /\ args.n_points = 4
    /\ args.n_harmonics = MaxN
    /\ ret.kind = "raise"

\* C30: prefix stability.  For the same function, period and n_points, and N1 <= N2,
\* compute_coefficients with N1 harmonics returns the same a0 as with N2 harmonics, and
\* its an and bn are exactly the first N1 entries of those returned for N2.
C30_PrefixStability ==
    (op = "compute_coefficients" /\ ret.kind = "return") =>
        \A N1 \in 0..args.n_harmonics :
            LET r1 == compute_coefficients(period, omega0, args.func, N1, args.n_points)
            IN  /\ r1.kind = "return"
                /\ r1.value.a0 = ret.value.a0
                /\ r1.value.an = SubSeq(ret.value.an, 1, N1)
                /\ r1.value.bn = SubSeq(ret.value.bn, 1, N1)

C30_Witness ==
    /\ op = "compute_coefficients"
    /\ ret.kind = "return"
    /\ args.n_harmonics >= 2
    /\ args.n_points = 4
    /\ ~IsZero(ret.value.a0)
    /\ ~IsZero(ret.value.an[1]) /\ ~IsZero(ret.value.bn[1])
    /\ ret.value.an[1] # ret.value.an[2]
    /\ ret.value.bn[1] # ret.value.bn[2]

(* -------------------------------------------------------- metrics claims *)

\* C10: compute_metrics with original and reconstructed of different lengths, and
\* get_harmonic_analysis with an and bn of different lengths, report an error for every
\* such pair of lengths, a length of 1 included, and return no result.
C10_MismatchedLengths ==
    /\ (op = "compute_metrics" /\ Len(args.original) # Len(args.reconstructed)) =>
           ret.kind = "raise"
    /\ (op = "get_harmonic_analysis" /\ Len(args.an) # Len(args.bn)) =>
           ret.kind = "raise"

\* C12: compute_metrics(x, x) for every x of length >= 1, a constant signal included,
\* returns rms_error = 0, max_error = 0, relative_error = 0 and a finite snr_db.
C12_MetricsExactness ==
    (/\ op = "compute_metrics"
     /\ Len(args.original) >= 1
     /\ args.reconstructed = args.original) =>
        /\ ret.kind = "return"
        /\ IsZero(ret.value.rms_error.sqrt_of)
        /\ IsZero(ret.value.max_error)
        /\ IsZero(ret.value.relative_error.sqrt_of_num)
        /\ ret.value.snr_db = "finite"

\* The magnitude of harmonic k (1-based) of the last get_harmonic_analysis call, squared.
MagnitudeSquared(k) ==
    RAdd(RMul(args.an[k], args.an[k]), RMul(args.bn[k], args.bn[k]))

\* C13: for an, bn of equal length N, dominant_harmonics has exactly min(5, N) entries,
\* all distinct and each in 1..N, in order of non-increasing magnitude, and every
\* harmonic not listed has a magnitude no larger than that of every listed one; for
\* N < 5 it lists all N indices.
C13_DominantHarmonics ==
    (op = "get_harmonic_analysis" /\ Len(args.an) = Len(args.bn)) =>
        LET N == Len(args.an)
            d == ret.value.dominant_harmonics
            listed == {d[i] : i \in 1..Len(d)}
        IN  /\ ret.kind = "return"
            /\ Len(d) = Min(5, N)
            /\ Cardinality(listed) = Len(d)
            /\ listed \subseteq 1..N
            /\ \A i \in 1..(Len(d) - 1) :
                   ~RLess(MagnitudeSquared(d[i]), MagnitudeSquared(d[i + 1]))
            /\ \A u \in (1..N) \ listed : \A k \in listed :
                   ~RLess(MagnitudeSquared(k), MagnitudeSquared(u))
            /\ N < 5 => listed = 1..N

C13_Witness ==
    /\ op = "get_harmonic_analysis"
    /\ Len(args.an) = MaxSpectrum
    /\ Len(args.bn) = MaxSpectrum
    /\ ret.kind = "return"
    /\ IsZero(MagnitudeSquared(1))
    /\ IsZero(MagnitudeSquared(2))
    /\ \A k \in 3..MaxSpectrum : ~IsZero(MagnitudeSquared(k))
    /\ ret.value.dominant_harmonics[1] = MaxSpectrum
    /\ ret.value.dominant_harmonics[5] = 2

\* The tolerance of a sum of percentages: a thousandth of a percent, far wider than the
\* rounding of the floating-point sum.
PercentTolerance == <<1, 1000>>

\* C14: for every coefficient set with total_power > 0, however small, the entries of
\* power_percentage are each in [0, 100] and sum to 100 within tolerance.
C14_PowerConservation ==
    (/\ op = "get_harmonic_analysis"
     /\ ret.kind = "return"
     /\ RLess(Rat(0), ret.value.total_power)) =>
        LET pp == ret.value.power_percentage
        IN  /\ \A j \in 1..Len(pp) : ~RLess(pp[j], Rat(0)) /\ ~RLess(Rat(100), pp[j])
            /\ ~RLess(PercentTolerance, RAbs(RSub(np_sum(pp), Rat(100))))

\* The real number c*sqrt(q) kept as [sqrt_of |-> q, times |-> c] is 0, is above 0.
SqrtIsZero(v) == IsZero(v.sqrt_of) \/ IsZero(v.times)

SqrtIsPositive(v) == RLess(Rat(0), v.sqrt_of) /\ RLess(Rat(0), v.times)

\* The harmonics above the fundamental (1-based: 2..N) of the last get_harmonic_analysis
\* call all have an = bn = 0.
NoOvertones ==
    \A k \in 2..Len(args.an) : IsZero(args.an[k]) /\ IsZero(args.bn[k])

\* C15: for an, bn of equal length N >= 1, thd = 0 when every harmonic above the
\* fundamental has an[k] = bn[k] = 0, whatever the fundamental (a zero one included),
\* and thd > 0 when some harmonic above the fundamental has non-zero power.
C15_ThdPureFundamental ==
    (/\ op = "get_harmonic_analysis"
     /\ Len(args.an) = Len(args.bn)
     /\ Len(args.an) >= 1) =>
        /\ ret.kind = "return"
        /\ NoOvertones => SqrtIsZero(ret.value.thd)
        /\ (\E k \in 2..Len(args.an) : ~IsZero(ret.value.power[k])) =>
               SqrtIsPositive(ret.value.thd)

C15_Witness ==
    /\ op = "get_harmonic_analysis"
    /\ Len(args.an) = MaxN
    /\ Len(args.bn) = MaxN
    /\ ~IsZero(args.an[1]) /\ ~IsZero(args.bn[1])
    /\ NoOvertones
    /\ ret.kind = "return"
    /\ SqrtIsZero(ret.value.thd)

\* C16: get_harmonic_analysis on an empty spectrum (N = 0) and on a spectrum of N >= 1
\* zero coefficients returns, raising nothing, thd = 0, fundamental_power = 0,
\* total_power = 0 and every power_percentage entry 0; for N = 0 magnitude, phase, power
\* and dominant_harmonics are empty.
C16_DegenerateSpectra ==
    (/\ op = "get_harmonic_analysis"
     /\ Len(args.an) = Len(args.bn)
     /\ \A k \in 1..Len(args.an) : IsZero(args.an[k]) /\ IsZero(args.bn[k])) =>
        /\ ret.kind = "return"
        /\ SqrtIsZero(ret.value.thd)
        /\ IsZero(ret.value.fundamental_power)
        /\ IsZero(ret.value.total_power)
        /\ Len(ret.value.power_percentage) = Len(args.an)
        /\ \A j \in 1..Len(args.an) : IsZero(ret.value.power_percentage[j])
        /\ Len(args.an) = 0 =>
               /\ ret.value.magnitude = <<>>
               /\ ret.value.phase = <<>>
               /\ ret.value.power = <<>>
               /\ ret.value.dominant_harmonics = <<>>

C16_Witness ==
    /\ op = "get_harmonic_analysis"
    /\ args.an = <<>>
    /\ args.bn = <<>>
    /\ ret.kind = "return"
    /\ ret.value.magnitude = <<>>

(* --------------------------------------------------------- export claims *)

\* A Python float or a list of Python floats.
IsPlain(object) == object.type \in {"float", "list"}

\* C17: the record export_data returns has exactly the keys time, original_signal,
\* reconstructed_signal, coefficients (with a0, an, bn), analysis and metrics, and every
\* numeric leaf of it, those under analysis and metrics included, is a plain float or a
\* plain list of floats, not an array or scalar object of the library.
C17_ExportRecord ==
    (op = "export_data" /\ ret.kind = "return") =>
        LET record == ret.value
        IN  /\ DOMAIN record = {"time", "original_signal", "reconstructed_signal",
                                "coefficients", "analysis", "metrics"}
            /\ DOMAIN record.coefficients = {"a0", "an", "bn"}
            /\ IsPlain(record.time)
            /\ IsPlain(record.original_signal)
            /\ IsPlain(record.reconstructed_signal)
            /\ \A key \in DOMAIN record.coefficients : IsPlain(record.coefficients[key])
            /\ \A key \in DOMAIN record.analysis : IsPlain(record.analysis[key])
            /\ \A key \in DOMAIN record.metrics : IsPlain(record.metrics[key])

(* ---------------------------------------------------------- frame claims *)

EngineOperations ==
    {"compute_coefficients", "synthesize_progressive", "synthesize_selective",
     "compute_metrics", "get_harmonic_analysis", "export_data"}

\* The last call left the caller's arrays as they were, and the same call made again,
\* on the analyzer and the arrays as they are now, returns the same result.
\* get_harmonic_analysis and export_data hold no statement that writes to an array.
ArgumentsKept ==
    /\ op = "compute_coefficients" =>
           /\ ret = compute_coefficients(period, omega0, args.func, args.n_harmonics,
                                         args.n_points)
           /\ func_calls = calls_of_func(period, args.n_points)
    /\ op = "synthesize_progressive" =>
           LET r == synthesize_progressive_objects(omega0, args.a0, args.an, args.bn,
                                                   args.t)
           IN  /\ r.store.t = args.t
               /\ r.store.an = args.an
               /\ r.store.bn = args.bn
               /\ ret = synthesize_progressive(omega0, args.a0, r.store.an, r.store.bn,
                                               r.store.t)
    /\ op = "synthesize_selective" =>
           LET r == synthesize_selective_objects(omega0, args.a0, args.an, args.bn,
                                                 args.t, args.enabled_harmonics)
           IN  /\ r.store.t = args.t
               /\ r.store.an = args.an
               /\ r.store.bn = args.bn
               /\ r.store.enabled_harmonics = args.enabled_harmonics
               /\ ret = synthesize_selective(omega0, args.a0, r.store.an, r.store.bn,
                                             r.store.t, r.store.enabled_harmonics)
    /\ op = "compute_metrics" =>
           ret = compute_metrics(args.original, args.reconstructed)

\* C18: every engine operation leaves period and omega0 of the analyzer and all of its
\* array arguments unchanged, so the same call with the same arguments returns the same
\* result again.
C18_Frame ==
    /\ [][op' \in EngineOperations => period' = period /\ omega0' = omega0]_vars
    /\ []ArgumentsKept

C18_Witness ==
    /\ op = "synthesize_selective"
    /\ period = Rat(-2)
    /\ Len(args.an) = MaxN
    /\ Len(args.t) = MaxT
    /\ Len(args.enabled_harmonics) = MaxN
    /\ \A k \in 1..MaxN : args.enabled_harmonics[k]
    /\ \A k \in 1..MaxN : ~IsZero(args.an[k]) /\ ~IsZero(args.bn[k])
    /\ ret.kind = "return"

(* --------------------------------------------------------- window claims *)

\* The events during which update_selective_synthesis runs: a click on a checkbox, and
\* a move of the harmonics slider, whose update_harmonic_checkboxes changes checkbox
\* states.
CheckboxEvents == {"update_selective_synthesis", "update_harmonics"}

\* C21: for every harmonic count 1..50 and every change of a checkbox state, by the user
\* or by update_harmonic_checkboxes, update_selective_synthesis and the selective plot
\* updates run to their end without reading the 20-entry enabled list at an index of 20
\* or more, also when the stored coefficients have more than 20 harmonics.
C21_EnabledListInRange ==
    op \in CheckboxEvents => ret.kind # "raise"

\* The stored current_coefficients, t_data and original_data are those of one run of
\* update_analysis with the period and omega0 the analyzer has now, the function that is
\* current now and the amplitude of the amplitude label.
StoredDataCurrent ==
    LET amplitude == float_text(window.amplitude_value)
        fs == call_function(window.current_function, window.t_data, window.analyzer)
        cs == window_coefficients(window.analyzer, window.current_function, amplitude,
                                  Len(window.current_coefficients.an))
    IN  /\ fs.kind = "return"
        /\ window.original_data = times_amplitude(fs.value, amplitude)
        /\ cs.kind = "return"
        /\ window.current_coefficients = cs.value

\* C22: after any sequence of events (function selection, custom function application,
\* a failing expression included, period, harmonics and amplitude changes, checkbox
\* clicks), whenever update_selective_synthesis synthesizes a signal, the stored
\* current_coefficients, t_data and original_data it uses come from one update_analysis
\* run made with the current period and omega0 of the analyzer and the current function
\* and amplitude.
C22_SelectiveUsesCurrentData ==
    (op = "update_selective_synthesis" /\ window.time_plot.kind = "selective") =>
        StoredDataCurrent

\* update_analysis runs to its end: the current function gives samples.
AnalysisRuns ==
    call_function(window.current_function, window.t_data, window.analyzer).kind = "return"

\* The signal update_selective_synthesis computes from the checkbox states of the
\* window.
SelectiveSignal ==
    window_selective(window.analyzer, window.current_coefficients, window.t_data,
                     Array([i \in 1..Len(window.harmonic_checkboxes) |->
                               window.harmonic_checkboxes[i].checked]))

\* C23: for every n in 1..50, after update_harmonics(n) and the analysis it triggers,
\* with no checkbox unchecked by the user since, the signal update_selective_synthesis
\* computes from the checkbox states equals the full reconstruction with all n
\* harmonics, the last element of progressive_data.
C23_AllCheckedIsFullReconstruction ==
    (/\ op = "update_harmonics"
     /\ AnalysisRuns
     /\ Len(window.current_coefficients.an) = args.value
     /\ window.progressive_data.length = args.value + 1) =>
        SelectiveSignal = progressive_item(window.progressive_data, -1).value

\* C27: when the custom expression fails when it is evaluated, apply_custom_function
\* leaves the program state as it was: current_function is still the function that was
\* active before, so later period, harmonics and amplitude changes go on analysing that
\* function.
C27_FailedCustomKeepsFunction ==
    [][(/\ op' = "apply_custom_function"
        /\ eval(args'.expr, window.t_data).kind = "raise") =>
           window'.current_function = window.current_function]_vars

\* C28: in every reachable state, from the construction of the window on and after any
\* sequence of period slider changes within 100..2000, the period of the analyzer is
\* greater than 0, its omega0 equals 2*pi / period, and the period update_analysis
\* builds the time vector from (the number of the period label) equals the period of
\* the analyzer.
C28_PeriodConsistent ==
    /\ RLess(Rat(0), window.analyzer.period.rat)
    /\ window.analyzer.omega0 = two_pi_over(window.analyzer.period)
    /\ Real(float_text(window.period_value)) = window.analyzer.period

\* C29: for every value v of the amplitude slider in 10..500 the amplitude
\* update_analysis multiplies into the function equals v/100 exactly, so two different
\* slider values always give different amplitudes.
C29_AmplitudeExact ==
    (op = "update_amplitude" /\ AnalysisRuns) =>
        /\ window.original_data.amplitude = hundredths(args.value)
        /\ window.current_coefficients.source.f_samples.amplitude = hundredths(args.value)

\* The time plot shows a frame of the animation drawn by the last event, a tick.
FrameShown == op = "animate_step" /\ window.time_plot.kind = "animation"

\* C24: in every animation frame, the RMS error animate_step shows at step s, 0 <= s <= N,
\* is the RMS error between the original signal and progressive_data[s], the
\* reconstruction with exactly s harmonics.
C24_FrameErrorMatchesFrame ==
    FrameShown =>
        window.time_plot.rms_error =
            <<rms_error_of(window.original_data,
                           progressive_item(window.progressive_data,
                                            window.time_plot.harmonics).value)>>

\* C25: in every interleaving of timer ticks with Play, Pause, Reset and events that
\* replace progressive_data by a list of another length, animate_step reads
\* progressive_data only at an index in 0..len(progressive_data)-1, and animation_step
\* never becomes negative.
C25_AnimationIndexInRange ==
    /\ window.animation_step >= 0
    /\ op = "animate_step" => ret.kind # "raise"
    /\ FrameShown =>
           /\ window.time_plot.harmonics \in 0..(window.progressive_data.length - 1)
           /\ window.time_plot.signal =
                  signal_of(window.progressive_data, window.progressive_data.omega0,
                            window.progressive_data.t, 1..window.time_plot.harmonics)

\* A tick finds animation_step beyond the end of a list that has become shorter while
\* the animation ran, and stops the timer.
C25_Witness ==
    /\ op = "animate_step"
    /\ window.animation_step > window.progressive_data.length
    /\ window.animation_timer = "stopped"
    /\ ret.kind = "return"

\* A tick while elements are left shows element animation_step and moves on by one; a
\* tick at the end of the list stops the timer.
TickShowsNext ==
    op' = "animate_step" =>
        IF window.animation_step < window.progressive_data.length
        THEN /\ window'.time_plot.kind = "animation"
             /\ window'.time_plot.harmonics = window.animation_step
             /\ window'.time_plot.signal =
                    progressive_item(window.progressive_data,
                                     window.animation_step).value
             /\ window'.animation_step = window.animation_step + 1
             /\ window'.animation_timer = "active"
        ELSE /\ window'.animation_timer = "stopped"
             /\ window'.time_plot = window.time_plot

\* Play starts the timer at element 0 whatever the state before, a paused one included.
PlayRestarts ==
    op' = "start_animation" =>
        window'.animation_step = 0 /\ window'.animation_timer = "active"

AnimationRunning == window.animation_timer = "active" /\ window.animation_step > 0

AnimationStoppedOrRestarted ==
    window.animation_timer = "stopped" \/ window.animation_step = 0

\* C26: after Play with progressive_data of length N + 1 and no other event, successive
\* ticks show the elements 0, 1, ..., N in this order, each exactly once, and the tick
\* after them stops the timer, so the animation stops eventually; Play pressed again at
\* any time, also after Pause, restarts from element 0.
C26_AnimationRunsToEnd ==
    /\ [][TickShowsNext /\ PlayRestarts]_vars
    /\ (AnimationRunning ~> AnimationStoppedOrRestarted)

\* The last element has been shown and the tick after it has stopped the timer.
C26_Witness ==
    /\ op = "animate_step"
    /\ window.animation_timer = "stopped"
    /\ window.animation_step = window.progressive_data.length
    /\ window.time_plot.kind = "animation"
    /\ window.time_plot.harmonics = window.progressive_data.length - 1
    /\ window.progressive_data.length = MaxHarmonics + 1

====
